---- MODULE Spec2Model ----
(***************************************************************************)
(* Model of the request scheduler, queue and cache of NsApi                *)
(* (src/src/api.ts, class NsApi of nsapi 0.2.0).                           *)
(*                                                                         *)
(* Time is in milliseconds.  Every timestamp is kept relative to the       *)
(* current instant: Date.now() reads Now = 0 and the passage of dt         *)
(* milliseconds lowers every stored timestamp by dt, which leaves every    *)
(* difference Date.now() - timestamp the code computes as it is.  The code *)
(* only ever compares such a difference with a delay, so the clock         *)
(* advances from one such deadline (or one millisecond past it) to the     *)
(* next.                                                                   *)
(*                                                                         *)
(* reqs holds the requests whose promise is pending: "queued" ones are in  *)
(* the queue, "dispatched" ones have had their func called (https.get) and *)
(* their response has not ended yet.  Once a promise is settled the        *)
(* instance holds no reference to the request any more: the request leaves *)
(* reqs and its outcome is shown in settled, the promises settled by the   *)
(* latest step.  "resolved" and "cachehit" are fulfilled promises, every   *)
(* other outcome is a rejection.                                           *)
(*                                                                         *)
(* delayWasOff, lastDispatchTime and lastTgDispatchTime are history        *)
(* variables read by no action: the instants at which the throttled timer  *)
(* last called a request's func, recorded for as long as the instance has  *)
(* been in throttled mode since its construction.                          *)
(***************************************************************************)
EXTENDS Integers, Sequences, FiniteSets, TLC

\* Number of request-method calls made on the instance.
MaxRequests == 3

\* Lower limits enforced by the delay setters, and the field defaults.
MinApiDelayMillis == 600
MinNonRecruitTgDelayMillis == 60000
MinRecruitTgDelayMillis == 180000
DefaultApiDelayMillis == 600
DefaultRecruitTgDelayMillis == 60000
DefaultNonRecruitTgDelayMillis == 180000
\* The defaults of the delays as documented for NsApiOptions.
DocumentedApiDelayMillis == 600
DocumentedNonRecruitTgDelayMillis == 60000
DocumentedRecruitTgDelayMillis == 180000

DefaultCacheTime == 900

\* The defaults of the constructor's parameters in revision 0.1.8.
OldApiDelayMillis == 600
OldNonRecruitTgDelayMillis == 60000
OldRecruitTgDelayMillis == 180000
OldRequestCacheValiditySecs == 900
MillisPerSecond == 1000

Undefined == "undefined"
Recruitment == "Recruitment"
NonRecruitment == "NonRecruitment"
TelegramType == {Recruitment, NonRecruitment}

\* The uri xmlRequest builds, which is the cache key.  Strings are compared
\* as JavaScript's sort() compares them, by their code units: NameOrder
\* lists the names used here in that order.
ApiVersion == 10

NameOrder ==
    <<"a", "a b", "c", "mode", "nation", "p", "q", "token", "x">>

Rank(name) == CHOOSE i \in DOMAIN NameOrder : NameOrder[i] = name

\* array.sort() of an array of distinct strings.
Sorted(names) ==
    CHOOSE t \in [DOMAIN names -> {names[i] : i \in DOMAIN names}] :
        /\ \A i \in DOMAIN names : \E j \in DOMAIN names : t[j] = names[i]
        /\ \A i \in DOMAIN t : \A j \in DOMAIN t :
               i < j => Rank(t[i]) < Rank(t[j])

\* encodeURIComponent: of the characters used here only the space is
\* escaped.
EncodeURIComponent(x) == IF x = "a b" THEN "a%20b" ELSE x

\* The value of the property called name in an object given as the
\* sequence of its <<name, value>> pairs in insertion order.
ValueOf(params, name) ==
    params[CHOOSE i \in DOMAIN params : params[i][1] = name][2]

\* xmlRequest's allParams for an array of shards and for shardParams and
\* globalParams given as sequences of <<name, value>> pairs in insertion
\* order.  The string "q=s1+s2;n1=v1;n2=v2&g1=w1&v=10" is kept as its parts:
\* q is empty when there are no shards, else it holds the sorted shards and
\* the shard parameters in the order of the for-in loop.
AllParams(shards, shardParams, globalParams) ==
    [q |-> IF Len(shards) # 0
           THEN <<[shards |->
                       [i \in DOMAIN shards |->
                           EncodeURIComponent(Sorted(shards)[i])],
                   params |->
                       [i \in DOMAIN shardParams |->
                           <<EncodeURIComponent(shardParams[i][1]),
                             EncodeURIComponent(shardParams[i][2])>>]]>>
           ELSE <<>>,
     global |->
         LET names == Sorted([i \in DOMAIN globalParams |-> globalParams[i][1]])
         IN  [i \in DOMAIN names |->
                 <<EncodeURIComponent(names[i]),
                   EncodeURIComponent(ValueOf(globalParams, names[i]))>>],
     v |-> ApiVersion]

\* The user agents given to the constructor and to the userAgent setter,
\* and the VERSION of revisions 0.2.0 and 0.1.8.
UserAgents == {"ua", "other"}
Version == "0.2.0"
OldVersion == "0.1.8"

\* The string the userAgent setter builds, `node-nsapi ${VERSION}
\* (maintained by Auralia, currently used by "${userAgent}")`, kept as its
\* two variable parts.
UserAgentString(version, agent) == [version |-> version, user |-> agent]

\* API_VERSION of revision 0.1.8, and the API_VERSION of the revision that
\* has the given VERSION.
OldApiVersion == 9
ApiVersionOf(version) ==
    IF version = OldVersion THEN OldApiVersion ELSE ApiVersion

UserAgentStrings ==
    {UserAgentString(Version, a) : a \in UserAgents}
        \cup {UserAgentString(OldVersion, "ua")}

\* "/cgi-bin/api.cgi?userAgent=" + encodeURIComponent(agent) + "&" + params,
\* kept as its parts; params ends with "v=" + API_VERSION of the revision
\* the user agent string names.
PathOf(agent, params) ==
    [userAgent |-> [agent EXCEPT !.user = EncodeURIComponent(@)],
     q |-> params.q, global |-> params.global,
     v |-> ApiVersionOf(agent.version)]

\* globalParams of nationRequest("x", ...) and commandParams of
\* nationCommandRequest(auth, "x", "c", {}, false).
NationParams == << <<"nation", "x">> >>
CommandParams == << <<"nation", "x">>, <<"c", "c">> >>

\* commandParams of nationCommandRequest(auth, "x", "c", {}, true) for the
\* prepare request, and for the execute request made with a token.
PrepareParams == CommandParams \o << <<"mode", "prepare">> >>
ExecuteParams(token) ==
    CommandParams \o << <<"mode", "execute">>, <<"token", token>> >>

\* The values of 'success' in the responses to prepare requests.
Tokens == {"t1", "t2"}

\* The arrays of shards and the shardParams objects requested: the same two
\* shards in both orders, the same two parameters inserted in both orders.
ShardOrders == {<<"a", "a b">>, <<"a b", "a">>}
ParamOrders == {<< <<"p", "x">>, <<"q", "x">> >>, << <<"q", "x">>, <<"p", "x">> >>}

\* The allParams strings built for the requests made here.  A string is
\* held as its number in its table: two strings are the same exactly when
\* they have the same number.
ParamsSet ==
    {AllParams(<<>>, <<>>, <<>>),
     AllParams(<<"a">>, <<>>, NationParams),
     AllParams(<<"a b">>, <<>>, NationParams),
     AllParams(<<>>, <<>>, CommandParams),
     AllParams(<<>>, <<>>, PrepareParams)}
    \cup {AllParams(<<>>, <<>>, ExecuteParams(t)) : t \in Tokens}
    \cup {AllParams(s, p, NationParams) : s \in ShardOrders, p \in ParamOrders}

RECURSIVE Listed(_)
Listed(set) ==
    IF set = {} THEN <<>>
    ELSE LET x == CHOOSE y \in set : TRUE
         IN  <<x>> \o Listed(set \ {x})

ParamsTable == Listed(ParamsSet)

Intern(params) == CHOOSE i \in DOMAIN ParamsTable : ParamsTable[i] = params

\* Names are sequences of characters.  The names given to nationRequest:
\* one to MaxWords words, each written "a" or "A", separated by a space or
\* by an underscore each, with a space before or after the name or neither.
MaxWords == 3

Pads == {"none", "before", "after"}

RECURSIVE Joined(_, _, _)
Joined(n, seps, word) ==
    IF n = 1 THEN word
    ELSE Joined(n - 1, seps, word) \o <<seps[n - 1]>> \o word

Spelled(n, seps, upper, pad) ==
    LET name == Joined(n, seps, IF upper THEN <<"A">> ELSE <<"a">>)
    IN  IF pad = "before" THEN <<" ">> \o name
        ELSE IF pad = "after" THEN name \o <<" ">>
        ELSE name

Names ==
    UNION {{Spelled(n, seps, upper, pad) :
                seps \in [1..(n - 1) -> {" ", "_"}],
                upper \in BOOLEAN, pad \in Pads} : n \in 1..MaxWords}

\* String.prototype.replace with a string pattern: the first occurrence
\* only.
ReplaceFirst(str, pattern, replacement) ==
    LET found == {i \in DOMAIN str : str[i] = pattern}
    IN  IF found = {} THEN str
        ELSE [str EXCEPT ![CHOOSE i \in found : \A j \in found : i <= j] =
                             replacement]

\* String.prototype.trim
Trim(str) ==
    LET kept == {i \in DOMAIN str : str[i] # " "}
    IN  IF kept = {} THEN <<>>
        ELSE SubSeq(str, CHOOSE i \in kept : \A j \in kept : i <= j,
                         CHOOSE i \in kept : \A j \in kept : j <= i)

\* String.prototype.toLowerCase
ToLowerCase(str) == [i \in DOMAIN str |-> IF str[i] = "A" THEN "a" ELSE str[i]]

\* NsApi.toId
ToId(name) ==
    ReplaceFirst(ToLowerCase(Trim(ReplaceFirst(name, "_", " "))), " ", "_")

\* encodeURIComponent of a name.
EncodeURIChars(str) ==
    [i \in DOMAIN str |-> IF str[i] = " " THEN "%20" ELSE str[i]]

\* allParams of nationRequest(name, ["a"]).
NameParams(name) ==
    [AllParams(<<"a">>, <<>>, NationParams) EXCEPT
        !.global = << <<"nation", EncodeURIChars(ToId(name))>> >>]

\* The names requested: the names above and their ids.
Inputs == Names \cup {ToId(n) : n \in Names}

\* The allParams of the requests made by name follow those of ParamsTable.
NameParamsTable == Listed({NameParams(n) : n \in Inputs})

InternName(params) ==
    Len(ParamsTable)
        + CHOOSE i \in DOMAIN NameParamsTable : NameParamsTable[i] = params

\* The uris: every user agent string with every allParams.  A uri is held
\* in the state as its number in UriTable, which is given by the number of
\* its user agent string and the number of its allParams.
AgentTable == Listed(UserAgentStrings)

AgentNumber(agent) == CHOOSE i \in DOMAIN AgentTable : AgentTable[i] = agent

AllParamsTable == ParamsTable \o NameParamsTable

UriNumber(agent, params) ==
    (AgentNumber(agent) - 1) * Len(AllParamsTable) + params

UriTable ==
    [k \in 1..(Len(AgentTable) * Len(AllParamsTable)) |->
        PathOf(AgentTable[((k - 1) \div Len(AllParamsTable)) + 1],
               AllParamsTable[((k - 1) % Len(AllParamsTable)) + 1])]

\* The allParams a uri was built from.
ParamsOf(uri) == ((uri - 1) % Len(AllParamsTable)) + 1

\* _userAgent: the user agent string of the instance.
VARIABLE userAgent

\* apiPath, for allParams given as their number: the uri for the user agent
\* the instance has now.
ApiPath(params) == UriNumber(userAgent, params)

\* The uri xmlRequest builds.
ApiUri(shards, shardParams, globalParams) ==
    ApiPath(Intern(AllParams(shards, shardParams, globalParams)))

\* The uri of nationRequest(name, ["a"]).
NameUri(name) == ApiPath(InternName(NameParams(name)))

\* The allParams of the requests made: plain for requests made with and
\* without disableCache, bypass for requests that are made with
\* disableCache = true only, command, prepare and execute for the requests
\* of nationCommandRequest, order for the requests for the shards and
\* parameters above, none for requests without parameters.
Params ==
    [plain |-> Intern(AllParams(<<"a">>, <<>>, NationParams)),
     bypass |-> Intern(AllParams(<<"a b">>, <<>>, NationParams)),
     command |-> Intern(AllParams(<<>>, <<>>, CommandParams)),
     prepare |-> Intern(AllParams(<<>>, <<>>, PrepareParams)),
     execute |-> [t \in Tokens |->
                     Intern(AllParams(<<>>, <<>>, ExecuteParams(t)))],
     order |-> {Intern(AllParams(s, p, NationParams)) :
                   s \in ShardOrders, p \in ParamOrders},
     none |-> Intern(AllParams(<<>>, <<>>, <<>>))]

\* Their uris for the user agent the instance has now.
PlainUris == {ApiPath(Params.plain)}
BypassUris == {ApiPath(Params.bypass)}
CommandUris == {ApiPath(Params.command)}
PrepareUris == {ApiPath(Params.prepare)}
ExecuteUri(token) == ApiPath(Params.execute[token])
ExecuteUris == {ExecuteUri(t) : t \in Tokens}
OrderUris == {ApiPath(p) : p \in Params.order}
Uris ==
    PlainUris \cup BypassUris \cup CommandUris \cup OrderUris
        \cup PrepareUris \cup ExecuteUris
NoUri == ApiPath(Params.none)

\* Date.now(), in the frame of the current instant.
Now == 0
\* A timestamp that is not set (stored timestamps are never in the future).
Never == Now + 1
\* An object handed to a caller or held by the cache: ref is its identity,
\* value its content as fetched (the id of the request whose response it was
\* parsed from), mutated whether a holder has changed its content, auth
\* whether the response was fetched with authentication headers.
NoData ==
    [ref |-> Now, value |-> Now, mutated |-> FALSE, auth |-> FALSE,
     held |-> FALSE]
NoEntry == [time |-> Never, data |-> NoData]

\* _cache = {}: an object without properties.
NoCache == [u \in {} |-> NoEntry]

\* c[uri], NoEntry standing for the undefined read from a missing property.
Lookup(c, uri) == IF uri \in DOMAIN c THEN c[uri] ELSE NoEntry

\* delete c[uri], for every uri of uris
Deleted(c, uris) == [u \in DOMAIN c \ uris |-> c[u]]

\* c[uri] = entry
Assigned(c, uri, entry) ==
    [u \in DOMAIN c \cup {uri} |-> IF u = uri THEN entry ELSE c[u]]

VARIABLES
    delay,                    \* _delay
    apiDelayMillis,           \* _apiDelayMillis
    recruitTgDelayMillis,     \* _recruitTgDelayMillis
    nonRecruitTgDelayMillis,  \* _nonRecruitTgDelayMillis
    queue,                    \* _queue: sequence of [id, tg]
    interval,                 \* _interval: the timer installed by initInterval
    lastRequestTime,          \* _lastRequestTime
    lastTgTime,               \* _lastTgTime
    requestInProgress,        \* _requestInProgress
    cacheApiRequests,         \* _cacheApiRequests
    cache,                    \* _cache: the entries, by uri
    cacheTime,                \* _cacheTime
    blockExistingRequests,    \* _blockExistingRequests
    blockNewRequests,         \* _blockNewRequests
    cleanup,                  \* _cleanup
    calls,                    \* number of request-method calls made so far
    reqs,                     \* id -> the request, for every pending promise
    settled,                  \* the promises settled by the latest step
    delayWasOff,              \* history: delay has been false
    lastDispatchTime,         \* history: the latest throttled dispatch
    lastTgDispatchTime,       \* history: telegram type -> latest dispatch
    construction,             \* history: when and with which options the
                              \* constructor was called
    pins,                     \* pin of the Auth object the callers share,
                              \* and id -> X-Pin header of the request
    clearedAt                 \* history: the number of requests made before
                              \* the latest clearCache that was followed

vars == <<userAgent, delay, apiDelayMillis, recruitTgDelayMillis,
          nonRecruitTgDelayMillis, queue, interval, lastRequestTime,
          lastTgTime, requestInProgress, cacheApiRequests, cache, cacheTime,
          blockExistingRequests, blockNewRequests, cleanup, calls, reqs,
          settled, delayWasOff, lastDispatchTime, lastTgDispatchTime,
          construction, pins, clearedAt>>

configVars == <<userAgent, delay, apiDelayMillis, recruitTgDelayMillis,
                nonRecruitTgDelayMillis, cacheApiRequests, cacheTime>>
flagVars == <<blockExistingRequests, blockNewRequests, cleanup>>
schedVars == <<lastRequestTime, lastTgTime, requestInProgress>>
histVars == <<delayWasOff, lastDispatchTime, lastTgDispatchTime,
              construction, pins, clearedAt>>

----------------------------------------------------------------------------
\* Constructor options.

\* An option is the empty set when omitted and {v} when given as v.
Omitted == {}
Given(v) == {v}

\* The delay options are either all omitted or all given (at the setters'
\* lower limits); delay and allowImmediate* are omitted or false.
Options ==
    {o \in [delay : {Omitted, Given(FALSE)},
            apiDelayMillis : {Omitted, Given(MinApiDelayMillis)},
            nonRecruitTgDelayMillis :
                {Omitted, Given(MinNonRecruitTgDelayMillis)},
            recruitTgDelayMillis : {Omitted, Given(MinRecruitTgDelayMillis)},
            allowImmediateApiRequests : {Omitted, Given(FALSE)},
            allowImmediateTgRequests : {Omitted, Given(FALSE)}] :
        /\ (o.apiDelayMillis = Omitted) = (o.recruitTgDelayMillis = Omitted)
        /\ (o.apiDelayMillis = Omitted) = (o.nonRecruitTgDelayMillis = Omitted)}

OrDefault(v, d) == IF v = Omitted THEN d ELSE CHOOSE x \in v : TRUE

\* Mutant: initInterval installs the throttled timer whatever delay is.
InitIntervalThrottled(d) == "throttled"

\* initInterval: the timer matching the delay setting replaces the old one.
InitInterval(d) == IF d THEN "throttled" ELSE "unthrottled"

NoDispatch == [t \in TelegramType |-> Never]

\* Mutant: the timestamp is set back whatever the option is.
StartImmediate(allow, d) == Now - d

\* A timestamp set in the constructor: the time of construction, or d
\* milliseconds earlier unless the option is false.
Start(allow, d) == IF allow # Given(FALSE) THEN Now - d ELSE Now

Constructor(o) ==
    /\ userAgent = UserAgentString(Version, "ua")
    /\ delay = OrDefault(o.delay, TRUE)
    /\ apiDelayMillis = OrDefault(o.apiDelayMillis, DefaultApiDelayMillis)
    /\ nonRecruitTgDelayMillis =
           OrDefault(o.nonRecruitTgDelayMillis, DefaultNonRecruitTgDelayMillis)
    /\ recruitTgDelayMillis =
           OrDefault(o.recruitTgDelayMillis, DefaultRecruitTgDelayMillis)
    /\ lastRequestTime = Start(o.allowImmediateApiRequests, apiDelayMillis)
    /\ lastTgTime = Start(o.allowImmediateApiRequests, recruitTgDelayMillis)
    /\ interval = InitInterval(delay)
    /\ queue = <<>>
    /\ requestInProgress = FALSE
    /\ cacheApiRequests = TRUE
    /\ cache = NoCache
    /\ cacheTime = DefaultCacheTime
    /\ blockExistingRequests = FALSE
    /\ blockNewRequests = FALSE
    /\ cleanup = FALSE
    /\ calls = 0
    /\ reqs = <<>>
    /\ settled = {}
    /\ delayWasOff = ~delay
    /\ lastDispatchTime = Never
    /\ lastTgDispatchTime = NoDispatch

\* An Auth object with updatePin = true and no pin, and no request made.
NoPins == [auth |-> Undefined, headers |-> <<>>]

\* The history of a construction that is not followed.
NotTraced ==
    [traced |-> FALSE, time |-> Never, allowImmediateApiRequests |-> Omitted,
     allowImmediateTgRequests |-> Omitted]

\* The history of a construction made now with options o.
Traced(o) ==
    [traced |-> TRUE, time |-> Now,
     allowImmediateApiRequests |-> o.allowImmediateApiRequests,
     allowImmediateTgRequests |-> o.allowImmediateTgRequests]

Init == \E o \in Options : Constructor(o) /\ construction = NotTraced /\ pins = NoPins /\ clearedAt = 0

----------------------------------------------------------------------------
\* The clock.

\* The instants at which a comparison made by the code changes its outcome:
\* the last instant at which it still has its present outcome.
Deadlines ==
    {lastRequestTime + apiDelayMillis,
     lastTgTime + recruitTgDelayMillis,
     lastTgTime + nonRecruitTgDelayMillis}
    \cup {cache[u].time + cacheTime * MillisPerSecond - 1 : u \in DOMAIN cache}

\* A timestamp after dt more milliseconds have passed.  A timestamp is only
\* ever compared with delays of at most h milliseconds, so once it lies more
\* than h in the past it is kept at h + 1 in the past.
Shift(t, dt, h) ==
    IF t = Never THEN t
    ELSE IF t - dt < Now - (h + 1) THEN Now - (h + 1) ELSE t - dt

\* The values given to the setters of the delays and of cacheTime: the
\* smallest value each accepts and the largest it rejects.
ApiDelays == {MinApiDelayMillis - 1, MinApiDelayMillis}
NonRecruitTgDelays ==
    {MinNonRecruitTgDelayMillis - 1, MinNonRecruitTgDelayMillis}
RecruitTgDelays == {MinRecruitTgDelayMillis - 1, MinRecruitTgDelayMillis}
CacheTimes == {0, 1}

\* The largest telegram delay the instance has or may be given.
MaxTgDelayMillis ==
    LET ds == {recruitTgDelayMillis, nonRecruitTgDelayMillis}
                  \cup RecruitTgDelays \cup NonRecruitTgDelays
    IN  CHOOSE d \in ds : \A e \in ds : e <= d

Advance ==
    /\ \E d \in Deadlines, e \in {0, 1} :
           LET dt == d + e - Now IN
           /\ dt > 0
           /\ lastRequestTime' = Shift(lastRequestTime, dt, apiDelayMillis)
           /\ lastTgTime' = Shift(lastTgTime, dt, MaxTgDelayMillis)
           /\ cache' = [u \in DOMAIN cache |->
                           [cache[u] EXCEPT
                               !.time = Shift(@, dt, cacheTime * MillisPerSecond)]]
           /\ lastDispatchTime' = Shift(lastDispatchTime, dt, apiDelayMillis)
           /\ construction' =
                  [construction EXCEPT
                      !.time = Shift(@, dt, MaxTgDelayMillis)]
           /\ UNCHANGED <<pins, clearedAt>>
           /\ lastTgDispatchTime' =
                  [t \in TelegramType |->
                      Shift(lastTgDispatchTime[t], dt, MaxTgDelayMillis)]
    /\ settled' = {}
    /\ UNCHANGED <<configVars, flagVars, requestInProgress, queue, interval,
                   calls, reqs, delayWasOff>>

----------------------------------------------------------------------------
\* Submission: the request methods, xmlRequest and apiRequest.

NewId == calls + 1

\* A request whose promise is pending: what was asked, whether its func has
\* been called, and by which timer.
Request(method, tg, uri, auth) ==
    [method |-> method, tg |-> tg, uri |-> uri, auth |-> auth,
     state |-> "queued", throttled |-> FALSE]

\* The id of a call that is not a request.
NoRequest == 0

\* A settled promise: how it was settled, the object it was fulfilled with
\* (NoData for a rejection), and whether the
\* instance was blocked for new requests when the call was made.
Outcome(id, st, data, blocked) ==
    [id |-> id, state |-> st, data |-> data, blocked |-> blocked]

\* reqs with request r added under id.
Put(id, r) == [i \in DOMAIN reqs \cup {id} |-> IF i = id THEN r ELSE reqs[i]]

\* Mutant: a settled request stays among the pending ones.
DropNone(ids) == reqs

\* reqs without the requests of ids.
Drop(ids) == [i \in DOMAIN reqs \ ids |-> reqs[i]]

\* Mutant: the executor pushes without looking at the block flags.
ApiRequestUnchecked(method, tg, uri, auth) ==
    /\ reqs' = Put(NewId, Request(method, tg, uri, auth))
    /\ queue' = Append(queue, [id |-> NewId, tg |-> tg])
    /\ settled' = {}

\* Mutant: the executor looks at blockNewRequests only.
ApiRequestAfterCleanup(method, tg, uri, auth) ==
    IF blockNewRequests
    THEN /\ settled' = {Outcome(NewId, "blocked", NoData, TRUE)}
         /\ UNCHANGED <<queue, reqs>>
    ELSE /\ reqs' = Put(NewId, Request(method, tg, uri, auth))
         /\ queue' = Append(queue, [id |-> NewId, tg |-> tg])
         /\ settled' = {}

\* The promise executor of apiRequest: throw when blocked, else push.
ApiRequest(method, tg, uri, auth) ==
    IF blockNewRequests \/ cleanup
    THEN /\ settled' = {Outcome(NewId, "blocked", NoData, TRUE)}
         /\ UNCHANGED <<queue, reqs>>
    ELSE /\ reqs' = Put(NewId, Request(method, tg, uri, auth))
         /\ queue' = Append(queue, [id |-> NewId, tg |-> tg])
         /\ settled' = {}

\* Mutant: a hit returns entry.data itself.
NoClone(id, data) == data

\* clone(entry.data), made for call id: a new object with the same content.
Clone(id, data) == [data EXCEPT !.ref = Now - id, !.held = TRUE]

\* Mutant: the age in milliseconds is compared with cacheTime.
CacheFreshMillis(uri) ==
    /\ Lookup(cache, uri) # NoEntry
    /\ (Now - Lookup(cache, uri).time) < cacheTime

\* Mutant: an entry of exactly cacheTime seconds is still served.
CacheFreshInclusive(uri) ==
    /\ Lookup(cache, uri) # NoEntry
    /\ (Now - Lookup(cache, uri).time) <= cacheTime * MillisPerSecond

\* The cache lookup at the start of xmlRequest.
CacheFresh(uri) ==
    /\ Lookup(cache, uri) # NoEntry
    /\ (Now - Lookup(cache, uri).time) < cacheTime * MillisPerSecond

\* nationRequest, regionRequest, worldRequest, worldAssemblyRequest and
\* nationCommandRequest without prepare: all are one call of xmlRequest.
XmlRequest(uri, auth, disableCache) ==
    /\ calls < MaxRequests
    /\ calls' = calls + 1
    /\ IF cacheApiRequests /\ ~disableCache /\ CacheFresh(uri)
       THEN /\ settled' = {Outcome(NewId, "cachehit",
                                   Clone(NewId, Lookup(cache, uri).data),
                                   blockNewRequests \/ cleanup)}
            /\ UNCHANGED <<queue, reqs>>
       ELSE ApiRequest("xml", Undefined, uri, auth)
    /\ UNCHANGED <<configVars, flagVars, schedVars, interval, cache, histVars>>

TelegramRequest(type) ==
    /\ calls < MaxRequests
    /\ calls' = calls + 1
    /\ ApiRequest("telegram", type, NoUri, FALSE)
    /\ UNCHANGED <<configVars, flagVars, schedVars, interval, cache, histVars>>

\* nationCommandRequest: each of its calls of xmlRequest is made with auth
\* and with disableCache = true.
NationCommandRequest(uri) == XmlRequest(uri, TRUE, TRUE)

\* The auth objects given to nationCommandRequest.
Auths == [pin : {Undefined, "pin"}, updatePin : BOOLEAN]

\* nationCommandRequest with requiresPrepare = true, up to its first await:
\* the ApiError for an auth without pin and updatePin, else the prepare
\* request.
NationCommandPrepare(auth) ==
    /\ calls < MaxRequests
    /\ calls' = calls + 1
    /\ IF auth.updatePin # TRUE /\ auth.pin = Undefined
       THEN /\ settled' = {Outcome(NewId, "failed_pin", NoData, FALSE)}
            /\ UNCHANGED <<queue, reqs>>
       ELSE \E u \in PrepareUris : ApiRequest("xml", Undefined, u, TRUE)
    /\ UNCHANGED <<configVars, flagVars, schedVars, interval, cache, histVars>>

AuthenticateRequest ==
    /\ calls < MaxRequests
    /\ calls' = calls + 1
    /\ ApiRequest("authenticate", Undefined, NoUri, FALSE)
    /\ UNCHANGED <<configVars, flagVars, schedVars, interval, cache, histVars>>

----------------------------------------------------------------------------
\* The scheduler timers installed by initInterval.

\* Mutant: the general floor is tested with >= instead of >.
ExecAtFloor(nextReq) ==
    IF Now - lastRequestTime >= apiDelayMillis
    THEN IF nextReq.tg = Recruitment
         THEN Now - lastTgTime > recruitTgDelayMillis
         ELSE IF nextReq.tg = NonRecruitment
              THEN Now - lastTgTime > nonRecruitTgDelayMillis
              ELSE TRUE
    ELSE FALSE

\* Mutant: each telegram type keeps to its own delay only when the
\* telegram before it was a recruitment one; a non-recruitment telegram is
\* scheduled like a plain request.
ExecRecruitOnly(nextReq) ==
    IF Now - lastRequestTime > apiDelayMillis
    THEN IF nextReq.tg = Recruitment
         THEN Now - lastTgTime > recruitTgDelayMillis
         ELSE TRUE
    ELSE FALSE

\* Mutant: the final else branch is missing, exec stays false for a request
\* that is not a telegram.
ExecNoElse(nextReq) ==
    IF Now - lastRequestTime > apiDelayMillis
    THEN IF nextReq.tg = Recruitment
         THEN Now - lastTgTime > recruitTgDelayMillis
         ELSE IF nextReq.tg = NonRecruitment
              THEN Now - lastTgTime > nonRecruitTgDelayMillis
              ELSE FALSE
    ELSE FALSE

\* The cadence test of the throttled timer for the head of the queue.
Exec(nextReq) ==
    IF Now - lastRequestTime > apiDelayMillis
    THEN IF nextReq.tg = Recruitment
         THEN Now - lastTgTime > recruitTgDelayMillis
         ELSE IF nextReq.tg = NonRecruitment
              THEN Now - lastTgTime > nonRecruitTgDelayMillis
              ELSE TRUE
    ELSE FALSE

\* Mutant: the timers take the entry pushed last.
NextReqLast == queue[Len(queue)]

\* The request the timers look at.
NextReq == queue[1]

\* nextReq.func(): https.get is called for the request.
Func(nextReq, throttled) ==
    /\ reqs' = [reqs EXCEPT ![nextReq.id].state = "dispatched",
                            ![nextReq.id].throttled = throttled]
    /\ lastDispatchTime' = IF delayWasOff THEN Never ELSE Now
    /\ lastTgDispatchTime' =
           IF delayWasOff THEN NoDispatch
           ELSE IF nextReq.tg \in TelegramType
                THEN [lastTgDispatchTime EXCEPT ![nextReq.tg] = Now]
                ELSE lastTgDispatchTime

\* Mutant: the throttled timer does not look at blockExistingRequests.
ThrottledIdleUnblocked == requestInProgress \/ Len(queue) = 0

\* The test at the top of the throttled timer's callback.
ThrottledIdle ==
    requestInProgress \/ Len(queue) = 0 \/ blockExistingRequests

TickThrottled ==
    /\ interval = "throttled"
    /\ ~ThrottledIdle
    /\ Exec(NextReq)
    /\ requestInProgress' = TRUE
    /\ Func(NextReq, TRUE)
    /\ queue' = Tail(queue)
    /\ settled' = {}
    /\ UNCHANGED <<configVars, flagVars, lastRequestTime, lastTgTime,
                   interval, cache, calls, delayWasOff, construction, pins, clearedAt>>

\* The test at the top of the unthrottled timer's callback.
UnthrottledIdle == Len(queue) = 0 \/ blockExistingRequests

TickUnthrottled ==
    /\ interval = "unthrottled"
    /\ ~UnthrottledIdle
    /\ Func(NextReq, FALSE)
    /\ queue' = Tail(queue)
    /\ settled' = {}
    /\ UNCHANGED <<configVars, flagVars, schedVars, interval, cache, calls,
                   delayWasOff, construction, pins, clearedAt>>

----------------------------------------------------------------------------
\* Completion of a dispatched request.

InFlight == {id \in DOMAIN reqs : reqs[id].state = "dispatched"}

\* What the caller's promise becomes once the response has ended:
\* statusOk says whether the status code is 200, good whether the body is
\* what the request method accepts (well-formed XML, 'queued', '1' or '0').
Settled(statusOk, good) ==
    IF ~statusOk THEN "failed_status"
    ELSE IF good THEN "resolved" ELSE "failed_decode"

\* The object built from the response of request id (parseXml's json for an
\* xmlRequest), which the caller's promise is fulfilled with.
Json(id) ==
    [ref |-> id, value |-> id, mutated |-> FALSE, auth |-> reqs[id].auth,
     held |-> TRUE]

\* Mutant: the store does not look at cacheApiRequests.
StoredWhenDisabled(id, st) ==
    IF reqs[id].method = "xml" /\ st = "resolved"
    THEN Assigned(cache, reqs[id].uri, [time |-> Now, data |-> Json(id)])
    ELSE cache

\* Mutant: the store does not wait for parseXml to succeed.
StoredUnparsed(id, st) ==
    IF /\ reqs[id].method = "xml"
       /\ st \in {"resolved", "failed_decode"}
       /\ cacheApiRequests
    THEN Assigned(cache, reqs[id].uri, [time |-> Now, data |-> Json(id)])
    ELSE cache

\* The cache store at the end of xmlRequest: the entry holds json itself.
Stored(id, st) ==
    IF reqs[id].method = "xml" /\ st = "resolved" /\ cacheApiRequests
    THEN Assigned(cache, reqs[id].uri, [time |-> Now, data |-> Json(id)])
    ELSE cache

\* Mutant: the end of a telegram's response leaves _lastTgTime as it is.
NextTgTimeStale(tg) == lastTgTime

\* _lastTgTime after the end of the response of a request of type tg.
NextTgTime(tg) == IF tg # Undefined THEN Now ELSE lastTgTime

\* response.on("end"): flag and timestamps, then the promise, then the
\* continuation of the request method.
ResponseEnd(id, statusOk, good) ==
    /\ id \in InFlight
    /\ ParamsOf(reqs[id].uri) # Params.prepare
    /\ requestInProgress' = FALSE
    /\ lastRequestTime' = Now
    /\ lastTgTime' = NextTgTime(reqs[id].tg)
    /\ LET st == Settled(statusOk, good) IN
           /\ settled' = {Outcome(id, st,
                                  IF st = "resolved" THEN Json(id) ELSE NoData,
                                  FALSE)}
           /\ cache' = Stored(id, st)
    /\ reqs' = Drop({id})
    /\ UNCHANGED <<configVars, flagVars, queue, interval, calls, histVars>>

\* What parseXml gives for a response that is not an object: null for an
\* empty body, a string for a root element that holds only text.
NotAnObject == "not an object"

\* What is known of the parsed response to a prepare request: the value of
\* its 'success', Undefined when it is an object without 'success', or
\* NotAnObject.
PrepareResponses == Tokens \cup {Undefined, NotAnObject}

\* "success" in prepareResponse throws a TypeError: the prepare request was
\* fulfilled with a value that is not an object.
InThrows(st, success) == st = "resolved" /\ success = NotAnObject

\* The cache c after nationCommandRequest kept the response of prepare
\* request id to itself (it went on to the execute request, or threw): the
\* object xmlRequest stored is one no caller is given, and it is not the
\* object the execute request of the same call will be fulfilled with.
Consumed(c, id) ==
    [u \in DOMAIN c |->
        IF c[u].data.ref = id
        THEN [c[u] EXCEPT !.data.ref = Now - id, !.data.held = FALSE]
        ELSE c[u]]

\* Mutant: the execute request is made whenever the response to the
\* prepare request holds 'success', whatever its status.
ExecutesOnFailure(st, success) == success \in Tokens

\* nationCommandRequest goes on to the execute request: the prepare request
\* was fulfilled and "success" is in its response.
Executes(st, success) == st = "resolved" /\ success \in Tokens

\* response.on("end") for a prepare request, and the continuation of
\* nationCommandRequest: the execute request made with the token is pushed
\* by apiRequest, unless it is blocked; a response that is not an object is
\* stored by xmlRequest and the promise rejected with a TypeError; success
\* is one of PrepareResponses.
PrepareResponseEnd(id, statusOk, good, success) ==
    /\ id \in InFlight
    /\ ParamsOf(reqs[id].uri) = Params.prepare
    /\ requestInProgress' = FALSE
    /\ lastRequestTime' = Now
    /\ lastTgTime' = NextTgTime(reqs[id].tg)
    /\ LET st == Settled(statusOk, good) IN
           /\ cache' = IF Executes(st, success) \/ InThrows(st, success)
                       THEN Consumed(Stored(id, st), id)
                       ELSE Stored(id, st)
           /\ IF Executes(st, success)
              THEN IF blockNewRequests \/ cleanup
                   THEN /\ settled' = {Outcome(id, "blocked", NoData, TRUE)}
                        /\ reqs' = Drop({id})
                        /\ queue' = queue
                   ELSE /\ settled' = {}
                        /\ reqs' = [reqs EXCEPT ![id] =
                                       Request("xml", Undefined,
                                               ExecuteUri(success), TRUE)]
                        /\ queue' = Append(queue,
                                           [id |-> id, tg |-> Undefined])
              ELSE /\ settled' =
                          {Outcome(id,
                                   IF InThrows(st, success)
                                   THEN "failed_type" ELSE st,
                                   IF st = "resolved" /\ ~InThrows(st, success)
                                   THEN Json(id) ELSE NoData,
                                   FALSE)}
                   /\ reqs' = Drop({id})
                   /\ queue' = queue
    /\ UNCHANGED <<configVars, flagVars, interval, calls, histVars>>

\* The values of the X-Pin header in responses.
PinHeaders == {"p1", "p2"}

\* nationRequest made with the shared Auth object and disableCache = true:
\* the executor of apiRequest copies auth.pin into the headers of the
\* request before it pushes the request.
AuthRequest(uri) ==
    /\ calls < MaxRequests
    /\ calls' = calls + 1
    /\ ApiRequest("xml", Undefined, uri, TRUE)
    /\ pins' = IF blockNewRequests \/ cleanup THEN pins
               ELSE [pins EXCEPT
                        !.headers = [i \in DOMAIN @ \cup {NewId} |->
                                        IF i = NewId THEN pins.auth ELSE @[i]]]
    /\ UNCHANGED <<configVars, flagVars, schedVars, interval, cache,
                   delayWasOff, lastDispatchTime, lastTgDispatchTime,
                   construction, clearedAt>>

\* auth.pin after a response: the X-Pin header of a response with status
\* 200, when there is one (updatePin being true).
PinUpdated(statusOk, pinHeader) ==
    IF statusOk /\ pinHeader # Undefined THEN pinHeader ELSE pins.auth

\* response.on("end") for a request made with the shared Auth object;
\* pinHeader is the X-Pin header of the response, Undefined when absent.
AuthResponseEnd(id, statusOk, pinHeader) ==
    /\ id \in InFlight
    /\ id \in DOMAIN pins.headers
    /\ requestInProgress' = FALSE
    /\ lastRequestTime' = Now
    /\ lastTgTime' = NextTgTime(reqs[id].tg)
    /\ pins' = [auth |-> PinUpdated(statusOk, pinHeader),
                headers |-> [i \in DOMAIN pins.headers \ {id} |->
                                pins.headers[i]]]
    /\ LET st == Settled(statusOk, TRUE) IN
           /\ settled' = {Outcome(id, st,
                                  IF st = "resolved" THEN Json(id) ELSE NoData,
                                  FALSE)}
           /\ cache' = Stored(id, st)
    /\ reqs' = Drop({id})
    /\ UNCHANGED <<configVars, flagVars, queue, interval, calls, delayWasOff,
                   lastDispatchTime, lastTgDispatchTime, construction,
                   clearedAt>>

\* .on("error", reject): the transport reports a failure.
RequestError(id) ==
    /\ id \in InFlight
    /\ settled' = {Outcome(id, "failed_transport", NoData, FALSE)}
    /\ reqs' = Drop({id})
    /\ UNCHANGED <<configVars, flagVars, schedVars, queue, interval, cache,
                   calls, histVars>>

\* A caller changes the content of the object r it was given as a result,
\* right after it got it or at any later time: r is a result of the latest
\* step, or an object in the cache that a caller was given (the object its
\* request was fulfilled with).  The instance sees the change where it
\* holds that same object.
Mutate(r) ==
    /\ r \in {o.data.ref : o \in {p \in settled : p.data # NoData}}
              \cup {cache[u].data.ref :
                        u \in {v \in DOMAIN cache : cache[v].data.held}}
    /\ cache' = [u \in DOMAIN cache |->
                    IF cache[u].data.ref = r
                    THEN [cache[u] EXCEPT !.data.mutated = TRUE]
                    ELSE cache[u]]
    /\ UNCHANGED <<configVars, flagVars, schedVars, queue, interval, calls,
                   reqs, settled, histVars>>

----------------------------------------------------------------------------
\* Property setters, clearQueue and cleanup.

SetDelay(d) ==
    /\ delay' = d
    /\ interval' = InitInterval(d)
    /\ delayWasOff' = (delayWasOff \/ ~d)
    /\ lastDispatchTime' = IF delayWasOff' THEN Never ELSE lastDispatchTime
    /\ lastTgDispatchTime' =
           IF delayWasOff' THEN NoDispatch ELSE lastTgDispatchTime
    /\ settled' = {}
    /\ UNCHANGED <<userAgent, apiDelayMillis, recruitTgDelayMillis,
                   nonRecruitTgDelayMillis, cacheApiRequests, cacheTime,
                   flagVars, schedVars, queue, cache, calls, reqs,
                   construction, pins, clearedAt>>

SetBlockExistingRequests(b) ==
    /\ blockExistingRequests' = b
    /\ settled' = {}
    /\ UNCHANGED <<configVars, blockNewRequests, cleanup, schedVars,
                   queue, interval, cache, calls, reqs, histVars>>

SetBlockNewRequests(b) ==
    /\ blockNewRequests' = b
    /\ settled' = {}
    /\ UNCHANGED <<configVars, blockExistingRequests, cleanup, schedVars,
                   queue, interval, cache, calls, reqs, histVars>>

SetCacheApiRequests(b) ==
    /\ cacheApiRequests' = b
    /\ settled' = {}
    /\ UNCHANGED <<userAgent, delay, apiDelayMillis, recruitTgDelayMillis,
                   nonRecruitTgDelayMillis, cacheTime, flagVars, schedVars,
                   queue, interval, cache, calls, reqs, histVars>>

\* An exception thrown to the caller by the call just made.
Thrown(error) == {Outcome(NoRequest, error, NoData, FALSE)}

\* Mutant: the setter assigns before it checks the value.
AssignedFirst(old, new, inRange) == new

\* The value of a property after its setter was called with new: the setter
\* throws before the assignment when new is out of range.
Set(old, new, inRange) == IF inRange THEN new ELSE old

\* What the caller of a setter gets: a RangeError when the value is out of
\* range.
Checked(inRange) == IF inRange THEN {} ELSE Thrown("RangeError")

\* The userAgent setter: an Error for a value that is not a string, else
\* the user agent string built around the value.
SetUserAgent(agent) ==
    /\ userAgent' = IF agent = Undefined THEN userAgent
                    ELSE UserAgentString(Version, agent)
    /\ settled' = IF agent = Undefined THEN Thrown("Error") ELSE {}
    /\ UNCHANGED <<delay, apiDelayMillis, recruitTgDelayMillis,
                   nonRecruitTgDelayMillis, cacheApiRequests, cacheTime,
                   flagVars, schedVars, queue, interval, cache, calls, reqs,
                   histVars>>

SetApiDelayMillis(v) ==
    /\ apiDelayMillis' = Set(apiDelayMillis, v, ~(v < MinApiDelayMillis))
    /\ settled' = Checked(~(v < MinApiDelayMillis))
    /\ UNCHANGED <<userAgent, delay, recruitTgDelayMillis, nonRecruitTgDelayMillis,
                   cacheApiRequests, cacheTime, flagVars, schedVars, queue,
                   interval, cache, calls, reqs, histVars>>

SetNonRecruitTgDelayMillis(v) ==
    /\ nonRecruitTgDelayMillis' =
           Set(nonRecruitTgDelayMillis, v, ~(v < MinNonRecruitTgDelayMillis))
    /\ settled' = Checked(~(v < MinNonRecruitTgDelayMillis))
    /\ UNCHANGED <<userAgent, delay, apiDelayMillis, recruitTgDelayMillis,
                   cacheApiRequests, cacheTime, flagVars, schedVars, queue,
                   interval, cache, calls, reqs, histVars>>

SetRecruitTgDelayMillis(v) ==
    /\ recruitTgDelayMillis' =
           Set(recruitTgDelayMillis, v, ~(v < MinRecruitTgDelayMillis))
    /\ settled' = Checked(~(v < MinRecruitTgDelayMillis))
    /\ UNCHANGED <<userAgent, delay, apiDelayMillis, nonRecruitTgDelayMillis,
                   cacheApiRequests, cacheTime, flagVars, schedVars, queue,
                   interval, cache, calls, reqs, histVars>>

SetCacheTime(v) ==
    /\ cacheTime' = Set(cacheTime, v, ~(v <= 0))
    /\ settled' = Checked(~(v <= 0))
    /\ UNCHANGED <<userAgent, delay, apiDelayMillis, recruitTgDelayMillis,
                   nonRecruitTgDelayMillis, cacheApiRequests, flagVars,
                   schedVars, queue, interval, cache, calls, reqs, histVars>>

\* Mutant: clearCache deletes the entries that are no longer served.
ClearedExpired(c) == Deleted(c, {u \in DOMAIN c : ~CacheFresh(u)})

\* clearCache's loop: every own property of c is deleted.
Cleared(c) == Deleted(c, DOMAIN c)

ClearCache ==
    /\ cache' = Cleared(cache)
    /\ settled' = {}
    /\ UNCHANGED <<configVars, flagVars, schedVars, queue, interval, calls,
                   reqs, histVars>>

\* clearCache, with the history of how many requests had been made before it.
ClearCacheTraced ==
    /\ cache' = Cleared(cache)
    /\ clearedAt' = calls
    /\ settled' = {}
    /\ UNCHANGED <<configVars, flagVars, schedVars, queue, interval, calls,
                   reqs, delayWasOff, lastDispatchTime, lastTgDispatchTime,
                   construction, pins>>

\* Mutant: clearQueue pops one entry (an if in place of the while).
PoppedOne(q) == IF Len(q) > 0 THEN 1 ELSE 0

\* clearQueue's loop: the number of entries popped off the end of the queue.
Popped(q) == Len(q)

\* Mutant: clearQueue rejects every pending request, dispatched or not.
PoppedIdsPending(q) == DOMAIN reqs

\* The entries clearQueue pops off q.
PoppedIds(q) == {q[i].id : i \in (Len(q) - Popped(q) + 1)..Len(q)}

\* The rejections made by clearQueue.
Cancelled(q) == {Outcome(id, "cancelled", NoData, FALSE) : id \in PoppedIds(q)}

ClearQueue ==
    /\ settled' = Cancelled(queue)
    /\ reqs' = Drop(PoppedIds(queue))
    /\ queue' = SubSeq(queue, 1, Len(queue) - Popped(queue))
    /\ UNCHANGED <<configVars, flagVars, schedVars, interval, cache, calls,
                   histVars>>

Cleanup ==
    /\ interval' = "none"
    /\ settled' = Cancelled(queue)
    /\ reqs' = Drop(PoppedIds(queue))
    /\ queue' = SubSeq(queue, 1, Len(queue) - Popped(queue))
    /\ cleanup' = TRUE
    /\ UNCHANGED <<configVars, blockExistingRequests, blockNewRequests,
                   schedVars, cache, calls, histVars>>

----------------------------------------------------------------------------
\* The scheduler: submissions of telegrams and plain requests, the two
\* timers, completions, the clock, and the delay and blockExistingRequests
\* setters.
Next ==
    \/ Advance
    \/ \E t \in TelegramType : TelegramRequest(t)
    \/ AuthenticateRequest
    \/ TickThrottled
    \/ TickUnthrottled
    \/ \E id \in DOMAIN reqs, s \in BOOLEAN, g \in BOOLEAN : ResponseEnd(id, s, g)
    \/ \E id \in DOMAIN reqs : RequestError(id)
    \/ \E d \in BOOLEAN : SetDelay(d)
    \/ \E b \in BOOLEAN : SetBlockExistingRequests(b)

Spec == Init /\ [][Next]_vars

\* Admission and cancellation: every request method with the cache in use,
\* blockNewRequests, clearQueue and cleanup, on an instance constructed with
\* the default delays in either mode.
InitAdmit ==
    \E o \in {p \in Options : /\ p.apiDelayMillis = Omitted
                              /\ p.allowImmediateApiRequests = Omitted
                              /\ p.allowImmediateTgRequests = Omitted} :
        Constructor(o) /\ construction = NotTraced /\ pins = NoPins /\ clearedAt = 0

NextAdmit ==
    \/ Advance
    \/ \E u \in PlainUris, dc \in BOOLEAN : XmlRequest(u, FALSE, dc)
    \/ \E t \in TelegramType : TelegramRequest(t)
    \/ AuthenticateRequest
    \/ TickThrottled
    \/ TickUnthrottled
    \/ \E id \in DOMAIN reqs, s \in BOOLEAN, g \in BOOLEAN : ResponseEnd(id, s, g)
    \/ \E id \in DOMAIN reqs : RequestError(id)
    \/ \E b \in BOOLEAN : SetBlockNewRequests(b)
    \/ ClearQueue
    \/ Cleanup

SpecAdmit == InitAdmit /\ [][NextAdmit]_vars

\* The life of an instance: submissions with and without a telegram type,
\* the timers, completions, every setter of the scheduler and cleanup, on an
\* instance constructed without options.
InitLife ==
    \E o \in {p \in Options : \A f \in DOMAIN p : p[f] = Omitted} :
        Constructor(o) /\ construction = NotTraced /\ pins = NoPins /\ clearedAt = 0

NextLife ==
    \/ Advance
    \/ \E u \in PlainUris : XmlRequest(u, FALSE, FALSE)
    \/ TelegramRequest(Recruitment)
    \/ TickThrottled
    \/ TickUnthrottled
    \/ \E id \in DOMAIN reqs : ResponseEnd(id, TRUE, TRUE)
    \/ \E d \in BOOLEAN : SetDelay(d)
    \/ \E b \in BOOLEAN : SetBlockExistingRequests(b)
    \/ \E b \in BOOLEAN : SetBlockNewRequests(b)
    \/ Cleanup

SpecLife == InitLife /\ [][NextLife]_vars

\* Progress of the queue: an instance in either mode that is not cleaned up,
\* on which every dispatched call ends with an HTTP response.  The timer
\* callbacks run again and again (setInterval), the clock advances, and the
\* response of every dispatched request ends.
NextLive ==
    \/ Advance
    \/ \E t \in TelegramType : TelegramRequest(t)
    \/ AuthenticateRequest
    \/ TickThrottled
    \/ TickUnthrottled
    \/ \E id \in DOMAIN reqs, s \in BOOLEAN, g \in BOOLEAN : ResponseEnd(id, s, g)
    \/ \E b \in BOOLEAN : SetBlockExistingRequests(b)
    \/ ClearQueue

SpecLive ==
    /\ InitAdmit
    /\ [][NextLive]_vars
    /\ WF_vars(Advance)
    /\ WF_vars(TickThrottled)
    /\ WF_vars(TickUnthrottled)
    /\ \A id \in 1..MaxRequests :
           WF_vars(\E s \in BOOLEAN, g \in BOOLEAN : ResponseEnd(id, s, g))

\* The cache: cacheable requests with and without auth and with and without
\* disableCache, the timers, completions with every outcome, the clock, and
\* callers that change the results they were given.
ObjectRefs == {id : id \in 1..MaxRequests} \cup {Now - id : id \in 1..MaxRequests}

NextCache ==
    \/ Advance
    \/ \E u \in PlainUris, a \in BOOLEAN, dc \in BOOLEAN : XmlRequest(u, a, dc)
    \/ TickThrottled
    \/ TickUnthrottled
    \/ \E id \in DOMAIN reqs, s \in BOOLEAN, g \in BOOLEAN : ResponseEnd(id, s, g)
    \/ \E r \in ObjectRefs : Mutate(r)

SpecCache == InitAdmit /\ [][NextCache]_vars

\* The request categories and the cache: cacheable requests, nation
\* commands, telegrams and authentication checks, the timers, completions
\* with every outcome, and the clock.
NextKinds ==
    \/ Advance
    \/ \E u \in PlainUris : XmlRequest(u, FALSE, FALSE)
    \/ \E u \in CommandUris : NationCommandRequest(u)
    \/ TelegramRequest(Recruitment)
    \/ AuthenticateRequest
    \/ TickThrottled
    \/ TickUnthrottled
    \/ \E id \in DOMAIN reqs, s \in BOOLEAN, g \in BOOLEAN : ResponseEnd(id, s, g)

SpecKinds == InitAdmit /\ [][NextKinds]_vars

\* What is stored in the cache and when: cacheable requests, some of them
\* always made with disableCache = true, the timers, completions with every
\* outcome, the clock, the cacheApiRequests setter and clearCache.
NextStore ==
    \/ Advance
    \/ \E u \in PlainUris : XmlRequest(u, FALSE, FALSE)
    \/ \E u \in BypassUris : XmlRequest(u, FALSE, TRUE)
    \/ TickThrottled
    \/ TickUnthrottled
    \/ \E id \in DOMAIN reqs, s \in BOOLEAN, g \in BOOLEAN : ResponseEnd(id, s, g)
    \/ \E b \in BOOLEAN : SetCacheApiRequests(b)
    \/ ClearCache

SpecStore == InitAdmit /\ [][NextStore]_vars

\* The cache key: nation requests for the same shards and shard parameters
\* given in every order, the userAgent setter, the timers, completions and
\* the clock.
NationRequest(shards, shardParams) ==
    XmlRequest(ApiUri(shards, shardParams, NationParams), FALSE, FALSE)

NextUri ==
    \/ Advance
    \/ \E sh \in ShardOrders, sp \in ParamOrders : NationRequest(sh, sp)
    \/ TickThrottled
    \/ TickUnthrottled
    \/ \E id \in DOMAIN reqs, s \in BOOLEAN : ResponseEnd(id, s, TRUE)
    \/ \E a \in UserAgents \cup {Undefined} : SetUserAgent(a)

SpecUri == InitAdmit /\ [][NextUri]_vars

\* Nation requests by name: every spelling of the names, the timers,
\* completions and the clock.
NationRequestNamed(name) == XmlRequest(NameUri(name), FALSE, FALSE)

NextToId ==
    \/ Advance
    \/ \E name \in Inputs : NationRequestNamed(name)
    \/ TickThrottled
    \/ TickUnthrottled
    \/ \E id \in DOMAIN reqs : ResponseEnd(id, TRUE, TRUE)

SpecToId == InitAdmit /\ [][NextToId]_vars

\* Revision 0.1.8, where cacheTime is called requestCacheValiditySecs and
\* may be 0: the constructor called with the defaults of its parameters or
\* with a validity of 0, and the setter of the validity.  The throttled
\* timer and responses with status 200 and well-formed XML are in 0.1.8 as
\* they are above.  nationRequest and xmlRequest run their bodies in
\* Promise.resolve().then(...): the call returns with the promise pending,
\* and the cache lookup and the push are made in a microtask, after what
\* the caller does next in the same turn and before any timer or response.
OldConstructor(requestCacheValiditySecs) ==
    /\ userAgent = UserAgentString(OldVersion, "ua")
    /\ delay = TRUE
    /\ apiDelayMillis = OldApiDelayMillis
    /\ nonRecruitTgDelayMillis = OldNonRecruitTgDelayMillis
    /\ recruitTgDelayMillis = OldRecruitTgDelayMillis
    /\ lastRequestTime = Now - apiDelayMillis
    /\ lastTgTime = Now - recruitTgDelayMillis
    /\ interval = "throttled"
    /\ queue = <<>>
    /\ requestInProgress = FALSE
    /\ cacheApiRequests = TRUE
    /\ cache = NoCache
    /\ cacheTime = requestCacheValiditySecs
    /\ blockExistingRequests = FALSE
    /\ blockNewRequests = FALSE
    /\ cleanup = FALSE
    /\ calls = 0
    /\ reqs = <<>>
    /\ settled = {}
    /\ delayWasOff = FALSE
    /\ lastDispatchTime = Never
    /\ lastTgDispatchTime = NoDispatch
    /\ construction = NotTraced /\ pins = NoPins /\ clearedAt = 0

\* The validities given to the constructor and to the setter.
OldValidities == {0 - 1, 0}

SetRequestCacheValiditySecs(v) ==
    /\ cacheTime' = Set(cacheTime, v, ~(v < 0))
    /\ settled' = Checked(~(v < 0))
    /\ UNCHANGED <<userAgent, delay, apiDelayMillis, recruitTgDelayMillis,
                   nonRecruitTgDelayMillis, cacheApiRequests, flagVars,
                   schedVars, queue, interval, cache, calls, reqs, histVars>>

InitOld ==
    \E v \in {0, OldRequestCacheValiditySecs} : OldConstructor(v)

\* The requests whose microtask has not run yet.
Called == {id \in DOMAIN reqs : reqs[id].state = "called"}

\* 0.1.8 nationRequest("x", ["a"]), up to its return.
OldNationRequest(uri) ==
    /\ calls < MaxRequests
    /\ calls' = calls + 1
    /\ reqs' = Put(NewId, [Request("xml", Undefined, uri, FALSE)
                              EXCEPT !.state = "called"])
    /\ settled' = {}
    /\ UNCHANGED <<configVars, flagVars, schedVars, queue, interval, cache,
                   histVars>>

\* The microtask of the oldest call that has one: the body of 0.1.8
\* xmlRequest, which is the cache lookup, then apiRequest's block test and
\* push.
OldXmlRequest(id) ==
    /\ id \in Called
    /\ \A j \in Called : id <= j
    /\ IF cacheApiRequests /\ CacheFresh(reqs[id].uri)
       THEN /\ settled' = {Outcome(id, "cachehit",
                                   Clone(id, Lookup(cache, reqs[id].uri).data),
                                   blockNewRequests \/ cleanup)}
            /\ reqs' = Drop({id})
            /\ queue' = queue
       ELSE IF blockNewRequests \/ cleanup
            THEN /\ settled' = {Outcome(id, "blocked", NoData, TRUE)}
                 /\ reqs' = Drop({id})
                 /\ queue' = queue
            ELSE /\ settled' = {}
                 /\ reqs' = [reqs EXCEPT ![id].state = "queued"]
                 /\ queue' = Append(queue, [id |-> id, tg |-> Undefined])
    /\ UNCHANGED <<configVars, flagVars, schedVars, interval, cache, calls,
                   histVars>>

NextOld ==
    \/ Called = {} /\ Advance
    \/ \E u \in PlainUris : OldNationRequest(u)
    \/ \E id \in DOMAIN reqs : OldXmlRequest(id)
    \/ Called = {} /\ TickThrottled
    \/ \E id \in DOMAIN reqs : Called = {} /\ ResponseEnd(id, TRUE, TRUE)
    \/ \E v \in OldValidities : SetRequestCacheValiditySecs(v)

SpecOld == InitOld /\ [][NextOld]_vars

\* The configuration: an instance constructed without delay options, the
\* setters of the delays and of cacheTime, plain requests, recruitment
\* telegrams, the timers, completions and the clock.
NextConfig ==
    \/ Advance
    \/ \E u \in PlainUris : XmlRequest(u, FALSE, FALSE)
    \/ TelegramRequest(Recruitment)
    \/ TickThrottled
    \/ TickUnthrottled
    \/ \E id \in DOMAIN reqs : ResponseEnd(id, TRUE, TRUE)
    \/ \E v \in ApiDelays : SetApiDelayMillis(v)
    \/ \E v \in NonRecruitTgDelays : SetNonRecruitTgDelayMillis(v)
    \/ \E v \in RecruitTgDelays : SetRecruitTgDelayMillis(v)
    \/ \E v \in CacheTimes : SetCacheTime(v)

SpecConfig == InitAdmit /\ [][NextConfig]_vars

\* Nation commands that require a prepare, on an instance constructed
\* without options: calls with every kind of auth object, the timer, the
\* responses to the prepare and to the execute requests, transport failures
\* and the clock.
NextCommand ==
    \/ Advance
    \/ \E auth \in Auths : NationCommandPrepare(auth)
    \/ TickThrottled
    \/ \E id \in DOMAIN reqs, s \in BOOLEAN, g \in BOOLEAN :
           \E success \in PrepareResponses :
               PrepareResponseEnd(id, s, g, success)
    \/ \E id \in DOMAIN reqs, s \in BOOLEAN : ResponseEnd(id, s, TRUE)
    \/ \E id \in DOMAIN reqs : RequestError(id)

SpecCommand == InitLife /\ [][NextCommand]_vars

\* clearCache among cacheable requests on an instance constructed without
\* options: the timer, completions with every outcome and the clock.
NextClear ==
    \/ Advance
    \/ \E u \in PlainUris : XmlRequest(u, FALSE, FALSE)
    \/ TickThrottled
    \/ \E id \in DOMAIN reqs, s \in BOOLEAN, g \in BOOLEAN : ResponseEnd(id, s, g)
    \/ ClearCacheTraced

SpecClear == InitLife /\ [][NextClear]_vars

\* Requests made with one Auth object whose updatePin is true, on an
\* instance constructed without options: the timer, the responses with and
\* without an X-Pin header, and the clock.
NextAuth ==
    \/ Advance
    \/ \E u \in BypassUris : AuthRequest(u)
    \/ TickThrottled
    \/ \E id \in DOMAIN reqs, s \in BOOLEAN :
           \E h \in PinHeaders \cup {Undefined} : AuthResponseEnd(id, s, h)

SpecAuth == InitLife /\ [][NextAuth]_vars

\* Construction with allowImmediateApiRequests and allowImmediateTgRequests
\* omitted, true or false and every other option omitted, followed in
\* throttled mode by requests of every category, the timer, completions and
\* the clock.
ImmediateOptions ==
    {o \in [delay : {Omitted},
            apiDelayMillis : {Omitted},
            nonRecruitTgDelayMillis : {Omitted},
            recruitTgDelayMillis : {Omitted},
            allowImmediateApiRequests : {Omitted, Given(TRUE), Given(FALSE)},
            allowImmediateTgRequests : {Omitted, Given(TRUE), Given(FALSE)}] :
        TRUE}

InitImmediate ==
    \E o \in ImmediateOptions : Constructor(o) /\ construction = Traced(o) /\ pins = NoPins /\ clearedAt = 0

NextImmediate ==
    \/ Advance
    \/ \E u \in PlainUris : XmlRequest(u, FALSE, FALSE)
    \/ \E t \in TelegramType : TelegramRequest(t)
    \/ TickThrottled
    \/ \E id \in DOMAIN reqs : ResponseEnd(id, TRUE, TRUE)

SpecImmediate == InitImmediate /\ [][NextImmediate]_vars

\* The options argument of the constructor: omitted, as in
\* new NsApi(userAgent), or an object without properties, as in
\* new NsApi(userAgent, {}).
OptionsArguments ==
    {Omitted} \cup {Given(o) : o \in {p \in Options :
                                         \A f \in DOMAIN p : p[f] = Omitted}}

\* The constructor called without its options argument: the read of
\* options.delay throws a TypeError after the field initialisers have run
\* and before the timestamps, the timer and the cache are set up.  No
\* instance is returned to the caller.
ConstructorThrows ==
    /\ userAgent = UserAgentString(Version, "ua")
    /\ delay = TRUE
    /\ apiDelayMillis = DefaultApiDelayMillis
    /\ nonRecruitTgDelayMillis = DefaultNonRecruitTgDelayMillis
    /\ recruitTgDelayMillis = DefaultRecruitTgDelayMillis
    /\ lastRequestTime = Never
    /\ lastTgTime = Never
    /\ interval = "none"
    /\ queue = <<>>
    /\ requestInProgress = FALSE
    /\ cacheApiRequests = TRUE
    /\ cache = NoCache
    /\ cacheTime = DefaultCacheTime
    /\ blockExistingRequests = FALSE
    /\ blockNewRequests = FALSE
    /\ cleanup = FALSE
    /\ calls = 0
    /\ reqs = <<>>
    /\ settled = Thrown("TypeError")
    /\ construction = NotTraced /\ pins = NoPins /\ clearedAt = 0
    /\ delayWasOff = FALSE
    /\ lastDispatchTime = Never
    /\ lastTgDispatchTime = NoDispatch

New(options) ==
    IF options = Omitted
    THEN ConstructorThrows
    ELSE \E o \in options : Constructor(o) /\ construction = NotTraced /\ pins = NoPins /\ clearedAt = 0

InitNew == \E options \in OptionsArguments : New(options)

\* The caller holds an instance: the constructor has returned.
Constructed == settled # Thrown("TypeError")

\* Construction with and without the options argument, followed on the
\* instance by plain requests, the timers, completions, the clock and
\* cleanup.
NextNew ==
    /\ Constructed
    /\ \/ Advance
       \/ \E u \in PlainUris : XmlRequest(u, FALSE, FALSE)
       \/ TelegramRequest(Recruitment)
       \/ TickThrottled
       \/ \E id \in DOMAIN reqs, s \in BOOLEAN : ResponseEnd(id, s, TRUE)
       \/ Cleanup

SpecNew == InitNew /\ [][NextNew]_vars

----------------------------------------------------------------------------
\* Notions used by the properties.

\* The step calls the func of request id.
Dispatching(id) ==
    /\ id \in DOMAIN reqs
    /\ reqs[id].state = "queued"
    /\ id \in DOMAIN reqs'
    /\ reqs'[id].state = "dispatched"

QueuedIds == {queue[i].id : i \in DOMAIN queue}

\* The step takes a request out of the queue without dispatching it.
Cancelling ==
    \E id \in QueuedIds :
        /\ id \notin {queue'[i].id : i \in DOMAIN queue'}
        /\ ~Dispatching(id)

\* The queue holds exactly the pending requests that have not been
\* dispatched, once each.
QueueHoldsQueued ==
    /\ QueuedIds = {id \in DOMAIN reqs : reqs[id].state = "queued"}
    /\ Cardinality(QueuedIds) = Len(queue)

\* Milliseconds since the entry of uri was stored.
Age(uri) == Now - Lookup(cache, uri).time

\* Less than cacheTime seconds have passed since the entry of uri was stored.
WithinWindow(uri) ==
    Lookup(cache, uri) # NoEntry /\ Age(uri) < cacheTime * MillisPerSecond

\* cacheTime seconds or more have passed since the entry of uri was stored.
Expired(uri) ==
    Lookup(cache, uri) # NoEntry /\ Age(uri) >= cacheTime * MillisPerSecond

\* Two objects have the same content.
DeepEqual(d, e) ==
    d.value = e.value /\ d.mutated = e.mutated /\ d.auth = e.auth

\* The objects created by the calls made so far.
Objects == {id : id \in 1..calls} \cup {Now - id : id \in 1..calls}

\* The set of the elements of a sequence.
Elements(seq) == {seq[i] : i \in DOMAIN seq}

\* Two uris are for the same endpoint and API version with the same set of
\* shards, the same shard parameters and the same global parameters.
SameFingerprint(k, l) ==
    /\ Elements(k.global) = Elements(l.global)
    /\ k.v = l.v
    /\ Len(k.q) = Len(l.q)
    /\ \A i \in DOMAIN k.q :
           /\ Elements(k.q[i].shards) = Elements(l.q[i].shards)
           /\ Elements(k.q[i].params) = Elements(l.q[i].params)

\* The uris the instance holds: those of the pending requests and the keys
\* of the cache entries.
UrisInUse ==
    {reqs[id].uri : id \in DOMAIN reqs} \cup DOMAIN cache

Failures == {"failed_transport", "failed_status", "failed_decode"}

\* The delay property that applies to telegrams of type t.
TgDelayMillis(t) ==
    IF t = Recruitment THEN recruitTgDelayMillis ELSE nonRecruitTgDelayMillis

----------------------------------------------------------------------------
\* C1: requests are dispatched in the order they were enqueued: whenever a
\* timer (throttled or not) dispatches a request, no request enqueued before
\* it (none with a smaller id) is still in the queue, even when that earlier
\* request is a telegram whose delay has not elapsed.
C1_Fifo ==
    [][\A id \in DOMAIN reqs :
           Dispatching(id) => \A q \in QueuedIds : q >= id]_vars

\* A telegram that must still wait for its delay is at the head of the
\* queue of the throttled timer, with a plain request behind it that has
\* passed the general floor, after the first request has been dispatched.
C1_Witness ==
    /\ calls = 3
    /\ DOMAIN reqs = {2, 3}
    /\ Len(queue) = 2
    /\ queue[1].tg \in TelegramType
    /\ queue[2].tg = Undefined
    /\ interval = "throttled"
    /\ ~ThrottledIdle
    /\ Now - lastRequestTime > apiDelayMillis
    /\ ~Exec(NextReq)

\* C2: on an instance that has always been in throttled mode, a request is
\* dispatched more than apiDelayMillis after the dispatch before it, whatever
\* the categories of the two requests.
C2_GeneralFloor ==
    [][\A id \in DOMAIN reqs :
           (Dispatching(id) /\ reqs'[id].throttled /\ lastDispatchTime # Never)
               => Now - lastDispatchTime > apiDelayMillis]_vars

\* The second request has just been dispatched by the throttled timer, the
\* first one has been dispatched and has completed.
C2_Witness ==
    /\ ~delayWasOff
    /\ calls >= 2
    /\ 1 \notin DOMAIN reqs
    /\ 2 \in InFlight
    /\ lastDispatchTime = Now

\* C3: on an instance that has always been in throttled mode, no telegram is
\* dispatched less than the delay of its type after an earlier telegram of
\* the same type.
C3_SameTypeTelegrams ==
    [][\A id \in DOMAIN reqs : \A t \in TelegramType :
           (/\ Dispatching(id)
            /\ reqs'[id].throttled
            /\ reqs[id].tg = t
            /\ lastTgDispatchTime[t] # Never)
               => ~(Now - lastTgDispatchTime[t] < TgDelayMillis(t))]_vars

\* The throttled timer is about to dispatch a telegram of a type of which
\* an earlier telegram has been dispatched.
C3_Witness ==
    /\ ~delayWasOff
    /\ interval = "throttled"
    /\ ~ThrottledIdle
    /\ Exec(NextReq)
    /\ NextReq.tg \in TelegramType
    /\ lastTgDispatchTime[NextReq.tg] # Never

\* C4: on an instance that has always been in throttled mode, a telegram of
\* either type is not dispatched until the delay of its own type has elapsed
\* since the dispatch of the latest telegram of the other type.
C4_OtherTypeTelegrams ==
    [][\A id \in DOMAIN reqs : \A t, u \in TelegramType :
           (/\ Dispatching(id)
            /\ reqs'[id].throttled
            /\ reqs[id].tg = t
            /\ u # t
            /\ lastTgDispatchTime[u] # Never)
               => ~(Now - lastTgDispatchTime[u] < TgDelayMillis(t))]_vars

\* A telegram is at the head of the queue of the throttled timer, a telegram
\* of the other type has been dispatched, the general floor has passed and
\* the telegram delay has not.
C4_Witness ==
    /\ ~delayWasOff
    /\ interval = "throttled"
    /\ ~ThrottledIdle
    /\ NextReq.tg \in TelegramType
    /\ \E u \in TelegramType \ {NextReq.tg} :
           /\ lastTgDispatchTime[u] # Never
           /\ lastTgDispatchTime[NextReq.tg] = Never
    /\ Now - lastRequestTime > apiDelayMillis
    /\ ~Exec(NextReq)

\* C5: at most one request dispatched by the throttled timer is in flight at
\* any time.
C5_OneInFlight ==
    Cardinality({id \in InFlight : reqs[id].throttled}) <= 1

\* C6: a failed request does not stop the scheduler: right after a request
\* has failed, if nothing is in flight, requests are queued and not blocked,
\* and the cadence constraints of the head are met, the timer dispatches it.
C6_FailureDoesNotStop ==
    (/\ \E o \in settled : o.state \in Failures
     /\ InFlight = {}
     /\ Len(queue) > 0
     /\ ~blockExistingRequests)
        => /\ (interval = "throttled" /\ Exec(NextReq)) => ~ThrottledIdle
           /\ (interval = "unthrottled") => ~UnthrottledIdle

\* C7: while blockExistingRequests is true no request is dispatched by
\* either timer, and the queued requests stay in the queue in their order
\* (unless clearQueue or cleanup cancels them).
C7_BlockExisting ==
    [][blockExistingRequests =>
           /\ \A id \in DOMAIN reqs : ~Dispatching(id)
           /\ \/ /\ Len(queue') >= Len(queue)
                 /\ SubSeq(queue', 1, Len(queue)) = queue
              \/ /\ queue' = <<>>
                 /\ \A id \in QueuedIds :
                        \E o \in settled' : o.id = id /\ o.state = "cancelled"
      ]_vars

\* blockExistingRequests is true while the throttled timer is running with
\* nothing in progress and two requests queued, the head's cadence
\* constraints being met.
C7_Witness ==
    /\ blockExistingRequests
    /\ interval = "throttled"
    /\ ~requestInProgress
    /\ Len(queue) >= 2
    /\ Exec(NextReq)

\* C8: a request submitted while blockNewRequests is true or after cleanup()
\* fails with a blocked-submission error and never completes with a result.
C8_BlockedNeverCompletes ==
    \A o \in settled : o.blocked => o.state = "blocked"

\* C9: a submission made while blockNewRequests is true leaves the queue,
\* the pending requests, the cadence timestamps and the in-flight flag as
\* they were.
C9_BlockedLeavesQueue ==
    [][(blockNewRequests /\ calls' = calls + 1)
           => UNCHANGED <<queue, reqs, lastRequestTime, lastTgTime,
                          requestInProgress>>]_vars

\* A submission has just been rejected because blockNewRequests is true,
\* while requests are queued.
C9_Witness ==
    /\ blockNewRequests
    /\ ~cleanup
    /\ Len(queue) >= 1
    /\ \E o \in settled : o.state = "blocked"

\* C10: a step in which a request leaves the queue without being dispatched
\* (clearQueue, or cleanup which calls it) rejects every queued request with
\* a cancellation error, once each, and leaves the queue empty; a request
\* whose promise has been settled is neither queued nor pending, so it is
\* never dispatched afterwards.  A call of clearQueue or cleanup always is
\* such a step when the queue is not empty.
C10_ClearQueueCancelsAll ==
    [][/\ ((ClearQueue \/ Cleanup) /\ Len(queue) > 0) => Cancelling
       /\ Cancelling
           => /\ queue' = <<>>
              /\ \A id \in QueuedIds :
                     /\ id \notin DOMAIN reqs'
                     /\ \E o \in settled' : o.id = id /\ o.state = "cancelled"
              /\ Cardinality(settled') = Len(queue)
       /\ \A o \in settled' :
              /\ o.id \notin DOMAIN reqs'
              /\ o.id \notin {queue'[i].id : i \in DOMAIN queue'}
      ]_vars

\* cleanup() has just been called with two requests queued: both promises
\* are rejected with the cancellation error and the queue is empty.
C10_Witness ==
    /\ cleanup
    /\ queue = <<>>
    /\ Cardinality(settled) = 2
    /\ \A o \in settled : o.state = "cancelled"

\* C11: once cleanup() has been called the queue is empty in every later
\* state, and no pending request is waiting to be dispatched, whatever
\* submissions, flag changes, delay changes and completions follow.
C11_EmptyAfterCleanup ==
    cleanup => /\ queue = <<>>
               /\ \A id \in DOMAIN reqs : reqs[id].state # "queued"

\* A submission made after cleanup(), with blockNewRequests false, has just
\* been rejected while a request dispatched before cleanup() is in flight.
C11_Witness ==
    /\ cleanup
    /\ ~blockNewRequests
    /\ InFlight # {}
    /\ \E o \in settled : o.state = "blocked"

\* C12: after cleanup() the scheduler timer is stopped in every later
\* state, whatever is done to the instance afterwards.
C12_TimerStopped ==
    cleanup => interval = "none"

\* C13: clearQueue() (and every step that cancels queued requests) leaves
\* the in-flight flag, the cadence timestamps, the block flags and the cache
\* as they were, and every dispatched request stays in flight as it was, so
\* that its response still settles its promise; called on an empty queue,
\* clearQueue() changes nothing in the instance.
C13_ClearQueueFrame ==
    [][/\ (ClearQueue \/ Cancelling)
           => /\ UNCHANGED <<requestInProgress, lastRequestTime, lastTgTime,
                             blockExistingRequests, blockNewRequests, cache>>
              /\ \A id \in InFlight :
                     id \in DOMAIN reqs' /\ reqs'[id] = reqs[id]
       /\ (ClearQueue /\ queue = <<>>)
           => UNCHANGED <<configVars, flagVars, schedVars, queue, interval,
                          cache, calls, reqs, histVars>>
      ]_vars

\* clearQueue() has just cancelled a queued request while another request,
\* dispatched by the throttled timer, is still in flight.
C13_Witness ==
    /\ ~cleanup
    /\ queue = <<>>
    /\ \E o \in settled : o.state = "cancelled"
    /\ InFlight # {}
    /\ requestInProgress

\* C14: if blockExistingRequests is eventually false for good, every queued
\* request eventually leaves the queue (dispatched, or cancelled by
\* clearQueue), in both modes.
C14_EventuallyLeaves ==
    (<>[](~blockExistingRequests))
        => \A id \in 1..MaxRequests :
               (id \in QueuedIds) ~> (id \notin QueuedIds)

\* Three requests have been accepted, blockExistingRequests is false again
\* and the last of them has been dispatched by the throttled timer.
C14_Witness ==
    /\ calls = 3
    /\ interval = "throttled"
    /\ ~blockExistingRequests
    /\ queue = <<>>
    /\ 3 \in InFlight
    /\ \E t \in TelegramType : lastTgDispatchTime[t] = Now

\* C15: every accepted request goes from queued to dispatched to completed,
\* or from queued to cancelled.  The queue holds exactly the requests that
\* are neither dispatched nor settled; only the head of the queue is
\* dispatched and it leaves the queue; a dispatched request is not
\* dispatched again and ends with its result or its failure, never with a
\* cancellation; only queued requests are cancelled; a settled request
\* never comes back.
C15_Lifecycle ==
    [][/\ QueueHoldsQueued
       /\ QueueHoldsQueued'
       /\ \A id \in DOMAIN reqs :
              Dispatching(id)
                  => id = queue[1].id
                     /\ id \notin {queue'[i].id : i \in DOMAIN queue'}
       /\ \A id \in InFlight :
              IF id \in DOMAIN reqs'
              THEN reqs'[id] = reqs[id]
              ELSE \E o \in settled' :
                       /\ o.id = id
                       /\ o.state \in Failures \cup {"resolved"}
       /\ \A o \in settled' :
              /\ o.state = "cancelled"
                     => o.id \in DOMAIN reqs /\ reqs[o.id].state = "queued"
              /\ o.id \notin DOMAIN reqs'
       /\ \A id \in 1..calls : id \notin DOMAIN reqs => id \notin DOMAIN reqs'
      ]_vars

\* The response of a dispatched request has just ended in a failure: the
\* request is gone and the next one is still queued behind it.
C15_Witness ==
    /\ \E o \in settled : o.state \in Failures /\ o.id \notin DOMAIN reqs
    /\ Len(queue) >= 1
    /\ InFlight = {}

\* C16: with the cache enabled, a cacheable request submitted while less
\* than cacheTime seconds have passed since its entry was stored completes
\* from the cache: it adds no queue entry and no pending request and leaves
\* the cadence timestamps and the in-flight flag as they were.
C16_HitConsumesNoDispatch ==
    [][\A u \in Uris :
           (cacheApiRequests /\ WithinWindow(u) /\ XmlRequest(u, FALSE, FALSE))
               => /\ \E o \in settled' : o.id = NewId /\ o.state = "cachehit"
                  /\ UNCHANGED <<queue, reqs, lastRequestTime, lastTgTime,
                                 requestInProgress>>]_vars

\* The second submission has just been answered from the cache: nothing is
\* queued or in flight and _lastRequestTime is still the end of the first
\* request's response, when the entry was stored.
C16_Witness ==
    /\ calls = 2
    /\ \E o \in settled : o.id = 2 /\ o.state = "cachehit"
    /\ queue = <<>>
    /\ DOMAIN reqs = {}
    /\ ~requestInProgress
    /\ \E u \in DOMAIN cache : cache[u].time = lastRequestTime

\* C17: no caller is served from the cache, and the cache never holds, a
\* payload changed by a caller that was given a result earlier.
C17_CacheIsolated ==
    /\ \A u \in DOMAIN cache : ~cache[u].data.mutated
    /\ \A o \in settled : o.state = "cachehit" => ~o.data.mutated

\* C18: a lookup answered from the cache is made while less than cacheTime
\* seconds have passed since the entry was stored, and the value returned
\* is deep-equal to the stored payload, is not the stored object, and is
\* not an object created by any earlier call (a fetch or another lookup).
C18_RoundTrip ==
    [][\A o \in settled' :
           (calls' = calls + 1 /\ o.id = NewId /\ o.state = "cachehit")
               => \E u \in Uris :
                      /\ WithinWindow(u)
                      /\ DeepEqual(o.data, Lookup(cache, u).data)
                      /\ o.data.ref # Lookup(cache, u).data.ref
                      /\ o.data.ref \notin Objects]_vars

\* The third call has just been answered from the entry stored by the
\* first one, with an equal value that is another object.
C18_Witness ==
    /\ calls = 3
    /\ \E o \in settled : \E u \in Uris :
           /\ o.id = 3
           /\ o.state = "cachehit"
           /\ Lookup(cache, u).data.ref = 1
           /\ DeepEqual(o.data, Lookup(cache, u).data)
           /\ o.data.ref # Lookup(cache, u).data.ref

\* C19: with the cache enabled and no block, a cacheable request submitted
\* once cacheTime seconds or more have passed since its entry was stored is
\* enqueued (the entry is left in place, not served), and when the response
\* of a cacheable request is accepted its payload replaces the entry.
C19_Expiry ==
    [][/\ \A u \in Uris : \A a \in BOOLEAN, dc \in BOOLEAN :
              (/\ cacheApiRequests
               /\ Expired(u)
               /\ ~blockNewRequests
               /\ ~cleanup
               /\ XmlRequest(u, a, dc))
                  => /\ queue' = Append(queue, [id |-> NewId, tg |-> Undefined])
                     /\ NewId \in DOMAIN reqs'
                     /\ reqs'[NewId].uri = u
                     /\ settled' = {}
                     /\ cache' = cache
       /\ \A o \in settled' :
              (/\ o.state = "resolved"
               /\ o.id \in InFlight
               /\ reqs[o.id].method = "xml"
               /\ cacheApiRequests)
                  => Lookup(cache', reqs[o.id].uri) =
                         [time |-> Now, data |-> o.data]
      ]_vars

\* Exactly cacheTime seconds have passed since the entry was stored, nothing
\* is pending and another call can be made.
C19_Witness ==
    /\ calls < MaxRequests
    /\ DOMAIN reqs = {}
    /\ cacheApiRequests
    /\ \E u \in Uris :
           Lookup(cache, u) # NoEntry /\ Age(u) = cacheTime * MillisPerSecond

\* C20: the cache never holds a payload fetched with authentication data,
\* and no call is answered from the cache with such a payload.
C20_AuthNeverCached ==
    /\ \A u \in DOMAIN cache : ~cache[u].data.auth
    /\ \A o \in settled : o.state = "cachehit" => ~o.data.auth

\* C21: nation commands, telegrams and authentication checks are never
\* cached: no entry is ever stored under the key of a nation command, the
\* completion of a telegram or an authentication check leaves the cache as
\* it was, and none of these calls is answered from the cache.
C21_NeverCached ==
    [][/\ \A u \in CommandUris : u \notin DOMAIN cache'
       /\ \A o \in settled' :
              (o.id \in DOMAIN reqs /\ reqs[o.id].method # "xml")
                  => cache' = cache
       /\ ((\E u \in CommandUris : NationCommandRequest(u))
              \/ TelegramRequest(Recruitment) \/ AuthenticateRequest)
              => \A o \in settled' : o.state # "cachehit"
      ]_vars

\* C22: a request made with disableCache = true is not answered from the
\* cache, and the completion of a request whose key is only ever requested
\* with disableCache = true leaves the cache as it was.
C22_DisableCacheBypasses ==
    [][/\ \A u \in Uris : \A a \in BOOLEAN :
              XmlRequest(u, a, TRUE)
                  => \A o \in settled' : o.state # "cachehit"
       /\ \A o \in settled' :
              (o.id \in DOMAIN reqs /\ reqs[o.id].uri \in BypassUris)
                  => cache' = cache
      ]_vars

\* C24: a change of cacheApiRequests leaves the cache as it is; while it is
\* false no submission is answered from the cache and no completion writes
\* to the cache; while it is true (again) a cacheable request whose entry is
\* within the validity window is answered with the content of that entry.
C24_DisableKeepsEntries ==
    [][/\ cacheApiRequests' # cacheApiRequests => cache' = cache
       /\ ~cacheApiRequests
              => /\ \A o \in settled' : o.state # "cachehit"
                 /\ \A o \in settled' : o.id \in InFlight => cache' = cache
       /\ \A u \in PlainUris :
              (cacheApiRequests /\ WithinWindow(u) /\ XmlRequest(u, FALSE, FALSE))
                  => \E o \in settled' :
                         /\ o.id = NewId
                         /\ o.state = "cachehit"
                         /\ DeepEqual(o.data, Lookup(cache, u).data)
      ]_vars

\* While the cache is disabled a request has just completed with a result:
\* the entry stored before is still there, within its window, and is not
\* the new result.
C24_Witness ==
    /\ ~cacheApiRequests
    /\ \E o \in settled :
           /\ o.state = "resolved"
           /\ \E u \in PlainUris : WithinWindow(u)
           /\ \A u \in Uris : Lookup(cache, u).data.ref # o.data.ref

\* C25: a request whose response fails decoding is rejected and leaves the
\* cache as it was.
C25_DecodeFailureNotCached ==
    [][\A o \in settled' :
           o.state = "failed_decode" => (o.data = NoData /\ cache' = cache)]_vars

\* A response has just failed decoding while the cache is enabled and holds
\* an entry stored earlier.
C25_Witness ==
    /\ cacheApiRequests
    /\ \E o \in settled : o.state = "failed_decode"
    /\ \E u \in PlainUris : u \in DOMAIN cache

\* C26: clearCache() leaves no entry at all, and with the cache empty every
\* cacheable submission is enqueued.
C26_ClearCacheAtomic ==
    [][/\ ClearCache => DOMAIN cache' = {}
       /\ \A u \in Uris : \A a \in BOOLEAN, dc \in BOOLEAN :
              (/\ DOMAIN cache = {}
               /\ ~blockNewRequests
               /\ ~cleanup
               /\ XmlRequest(u, a, dc))
                  => /\ queue' = Append(queue, [id |-> NewId, tg |-> Undefined])
                     /\ NewId \in DOMAIN reqs'
                     /\ settled' = {}
      ]_vars

\* The cache is enabled and empty although an earlier request has completed,
\* and a cacheable request made since is pending.
C26_Witness ==
    /\ cacheApiRequests
    /\ DOMAIN cache = {}
    /\ calls >= 2
    /\ 1 \notin DOMAIN reqs
    /\ \E id \in DOMAIN reqs : reqs[id].uri \in PlainUris

\* C23: two requests for the same endpoint, set of shards, shard parameters
\* and global parameters have the same uri, which is the cache key.
C23_KeyIgnoresOrder ==
    \A k \in UrisInUse : \A l \in UrisInUse :
        SameFingerprint(UriTable[k], UriTable[l]) => k = l

\* C27: in every state, the initial one of an instance constructed without
\* delay options included, each delay is at least its lower limit.
C27_DelaysAtLeastMinimum ==
    /\ apiDelayMillis >= MinApiDelayMillis
    /\ nonRecruitTgDelayMillis >= MinNonRecruitTgDelayMillis
    /\ recruitTgDelayMillis >= MinRecruitTgDelayMillis

\* C28: a setter of a delay or of cacheTime called with a value out of
\* range throws a RangeError, and a call that throws a RangeError leaves
\* the configuration, the queue, the timer, the cache and every other part
\* of the state as they were.
C28_SetterRejects ==
    [][/\ \A v \in ApiDelays :
              (v < MinApiDelayMillis /\ SetApiDelayMillis(v))
                  => settled' = Thrown("RangeError")
       /\ \A v \in NonRecruitTgDelays :
              (v < MinNonRecruitTgDelayMillis /\ SetNonRecruitTgDelayMillis(v))
                  => settled' = Thrown("RangeError")
       /\ \A v \in RecruitTgDelays :
              (v < MinRecruitTgDelayMillis /\ SetRecruitTgDelayMillis(v))
                  => settled' = Thrown("RangeError")
       /\ \A v \in CacheTimes :
              (v <= 0 /\ SetCacheTime(v)) => settled' = Thrown("RangeError")
       /\ settled' = Thrown("RangeError")
              => UNCHANGED <<configVars, flagVars, schedVars, queue, interval,
                             cache, calls, reqs, histVars>>
      ]_vars

\* A setter has just thrown a RangeError while a request is queued behind
\* one in flight, the cache holds an entry, and the recruitment delay and
\* cacheTime hold the values given to their setters earlier.
C28_Witness ==
    /\ settled = Thrown("RangeError")
    /\ requestInProgress
    /\ Len(queue) > 0
    /\ DOMAIN cache # {}
    /\ recruitTgDelayMillis = MinRecruitTgDelayMillis
    /\ cacheTime = 1
    /\ interval = "throttled"

\* C29: an instance constructed without delay options, and whose delays
\* were not set since, has the documented defaults: 600 for API requests,
\* 60000 for non-recruitment and 180000 for recruitment telegrams, the
\* recruitment delay being the longer one.
C29_DocumentedDefaults ==
    /\ apiDelayMillis = DocumentedApiDelayMillis
    /\ nonRecruitTgDelayMillis = DocumentedNonRecruitTgDelayMillis
    /\ recruitTgDelayMillis = DocumentedRecruitTgDelayMillis
    /\ recruitTgDelayMillis > nonRecruitTgDelayMillis

\* C30: the constructor called with a user agent only does not throw: the
\* caller holds an instance whose timer is installed (until cleanup) and
\* whose options have the values of the field initialisers.
C30_ConstructsWithoutOptions ==
    /\ Constructed
    /\ interval = "throttled" \/ cleanup
    /\ delay
    /\ cacheApiRequests
    /\ cacheTime = DefaultCacheTime
    /\ apiDelayMillis = DefaultApiDelayMillis
    /\ nonRecruitTgDelayMillis = DefaultNonRecruitTgDelayMillis
    /\ recruitTgDelayMillis = DefaultRecruitTgDelayMillis

\* C31: an assignment to delay leaves one timer, of the mode assigned, and
\* leaves the queue, the pending requests, the cadence timestamps, the block
\* flags and the cache as they were.
C31_DelaySwitchKeepsWork ==
    [][\A d \in BOOLEAN :
           SetDelay(d)
               => /\ interval' = (IF d THEN "throttled" ELSE "unthrottled")
                  /\ delay' = d
                  /\ UNCHANGED <<queue, reqs, lastRequestTime, lastTgTime,
                                 blockExistingRequests, blockNewRequests,
                                 cache>>
      ]_vars

\* delay has just been switched off while two requests are queued and the
\* cache holds an entry: the unthrottled timer is the one installed.
C31_Witness ==
    /\ ~delay
    /\ interval = "unthrottled"
    /\ settled = {}
    /\ Len(queue) = 2
    /\ DOMAIN cache # {}
    /\ ~cleanup

\* Milliseconds since the constructor was called.
SinceConstruction == Now - construction.time

\* No request has been dispatched since construction (in throttled mode).
NoneDispatchedYet == ~delayWasOff /\ lastDispatchTime = Never

\* C32: when allowImmediateTgRequests is false, no telegram is dispatched
\* by the throttled timer before the delay of its type has elapsed since
\* construction; when it is true or omitted, a telegram of either type that
\* is at the head of the queue before any request was dispatched is
\* dispatched as soon as the clock has moved on and the delay for API
\* requests allows it; both whatever allowImmediateApiRequests is.
C32_ImmediateTelegrams ==
    /\ (/\ construction.allowImmediateTgRequests = Given(FALSE)
        /\ interval = "throttled"
        /\ ~ThrottledIdle
        /\ NextReq.tg \in TelegramType
        /\ Exec(NextReq))
           => ~(SinceConstruction < TgDelayMillis(NextReq.tg))
    /\ (/\ construction.allowImmediateTgRequests # Given(FALSE)
        /\ NoneDispatchedYet
        /\ SinceConstruction > 0
        /\ Now - lastRequestTime > apiDelayMillis
        /\ interval = "throttled"
        /\ ~ThrottledIdle
        /\ NextReq.tg \in TelegramType)
           => Exec(NextReq)

\* C33: when allowImmediateApiRequests is false, no request is dispatched
\* by the throttled timer until more than apiDelayMillis has elapsed since
\* construction; when it is true or omitted, a plain request that is at the
\* head of the queue before any request was dispatched is dispatched as soon
\* as the clock has moved on from the instant of construction.
C33_ImmediateApiRequests ==
    /\ (/\ construction.allowImmediateApiRequests = Given(FALSE)
        /\ interval = "throttled"
        /\ ~ThrottledIdle
        /\ Exec(NextReq))
           => SinceConstruction > apiDelayMillis
    /\ (/\ construction.allowImmediateApiRequests # Given(FALSE)
        /\ NoneDispatchedYet
        /\ SinceConstruction > 0
        /\ interval = "throttled"
        /\ ~ThrottledIdle
        /\ NextReq.tg = Undefined)
           => Exec(NextReq)

\* On an instance constructed with allowImmediateApiRequests = false the
\* first request has just been dispatched, apiDelayMillis + 1 milliseconds
\* after construction.
C33_Witness ==
    /\ construction.allowImmediateApiRequests = Given(FALSE)
    /\ lastDispatchTime = Now
    /\ calls = 1
    /\ SinceConstruction = apiDelayMillis + 1

\* C34: on an instance that has always been in throttled mode,
\* requestInProgress is true in exactly the states in which a dispatched
\* request has not completed yet, be it with a response or with a transport
\* failure.
C34_InProgressFlag ==
    ~delayWasOff => (requestInProgress <=> InFlight # {})

\* Request id is, after the step, an execute request that it was not
\* before.
ExecuteEnqueued(id) ==
    /\ id \in DOMAIN reqs'
    /\ reqs'[id].uri \in ExecuteUris
    /\ ~(id \in DOMAIN reqs /\ reqs[id].uri \in ExecuteUris)

\* C35: an execute request appears only in the step in which the prepare
\* request of the same call completes with status 200 and a response that
\* holds 'success', it is enqueued with the token of that response; a
\* prepare request that fails or whose response has no 'success' (an object
\* without it, or no object at all) ends the call with nothing enqueued; and a call with an auth object that has no
\* pin and no updatePin fails with nothing enqueued.
C35_PrepareThenExecute ==
    [][/\ \A id \in 1..MaxRequests :
              ExecuteEnqueued(id)
                  => \E token \in Tokens :
                         /\ PrepareResponseEnd(id, TRUE, TRUE, token)
                         /\ reqs'[id].uri = ExecuteUri(token)
                         /\ reqs'[id].state = "queued"
                         /\ queue' = Append(queue,
                                            [id |-> id, tg |-> Undefined])
       /\ \A id \in DOMAIN reqs : \A s \in BOOLEAN, g \in BOOLEAN :
              \A r \in {Undefined, NotAnObject} :
                  \/ ~PrepareResponseEnd(id, s, g, r)
                  \/ id \notin DOMAIN reqs' /\ queue' = queue
       /\ \A id \in DOMAIN reqs : \A token \in Tokens :
              \/ ~(\/ PrepareResponseEnd(id, FALSE, TRUE, token)
                    \/ PrepareResponseEnd(id, TRUE, FALSE, token)
                    \/ PrepareResponseEnd(id, FALSE, FALSE, token))
              \/ id \notin DOMAIN reqs' /\ queue' = queue
       /\ \A id \in DOMAIN reqs :
              (reqs[id].uri \in PrepareUris /\ RequestError(id))
                  => id \notin DOMAIN reqs' /\ queue' = queue
       /\ \A auth \in Auths :
              (/\ auth.pin = Undefined
               /\ auth.updatePin # TRUE
               /\ NationCommandPrepare(auth))
                  => /\ queue' = queue
                     /\ reqs' = reqs
                     /\ \E o \in settled' :
                            o.id = NewId /\ o.state = "failed_pin"
      ]_vars

\* The execute request of the second call is queued, carrying the token
\* t2 of its prepare response, after the first call has ended.
C35_Witness ==
    /\ calls >= 2
    /\ 1 \notin DOMAIN reqs
    /\ 2 \in DOMAIN reqs
    /\ reqs[2].uri = ExecuteUri("t2")
    /\ reqs[2].state = "queued"
    /\ settled = {}

\* The canonical form of a name: without the surrounding spaces, in lower
\* case, with an underscore for every space.
Canonical(name) ==
    [i \in DOMAIN Trim(name) |->
        IF Trim(name)[i] = " " THEN "_" ELSE ToLowerCase(Trim(name))[i]]

\* C36: the id of a name is its canonical form, so a request for a name is
\* answered from the entry stored for any spelling of the same name (its id
\* included, toId being idempotent) that is still within its window.
C36_ToIdCanonical ==
    [][\A m \in Inputs :
           NationRequestNamed(m)
               => /\ ToId(m) = Canonical(m)
                  /\ ToId(ToId(m)) = ToId(m)
                  /\ \A n \in Inputs :
                         (/\ Canonical(n) = Canonical(m)
                          /\ cacheApiRequests
                          /\ CacheFresh(NameUri(n)))
                             => \E o \in settled' : o.state = "cachehit"
      ]_vars

\* C37: in revision 0.1.8, while requestCacheValiditySecs is 0 and the
\* cache is enabled, a request whose uri has an entry when its lookup is
\* made is answered from the cache, however old the entry is.
C37_ZeroNeverExpires ==
    [][\A id \in DOMAIN reqs :
           (/\ cacheTime = 0
            /\ cacheApiRequests
            /\ reqs[id].uri \in DOMAIN cache
            /\ OldXmlRequest(id))
               => \E o \in settled' : o.id = id /\ o.state = "cachehit"
      ]_vars

\* C38: once a response has updated the pin of the Auth object, every
\* request made with that object is dispatched with the updated pin in its
\* X-Pin header, the requests that were queued before the update included.
C38_UpdatedPinSent ==
    [][\A id \in DOMAIN reqs :
           (Dispatching(id) /\ id \in DOMAIN pins.headers
                /\ pins.auth # Undefined)
               => pins.headers[id] = pins.auth]_vars

\* C39: a cache hit never returns data of a response to a request that was
\* made before the latest clearCache: the requests that were queued or in
\* flight at the clear do not fill the cache again.
C39_ClearedStaysCleared ==
    \A o \in settled : o.state = "cachehit" => o.data.value > clearedAt
====
